---- MODULE Spec2Model ----
\* Verification model of the jivanu-rag core: the incremental vector index
\* (src/src/vectorstore/vectorstore.py), the retrieve-then-generate pipeline
\* (src/src/node/rag_nodes.py, src/src/graph_builder/graph_builder.py) and
\* their callers (src/main.py, src/streamlit_app.py).
EXTENDS Integers, Sequences, FiniteSets, TLC

\* ------------------------------------------------------------------------
\* Bounds of the model and program constants
\* ------------------------------------------------------------------------
MaxDocs == 2          \* longest chunk sequence handed to one ingest call
MaxColl == 3          \* most chunks the collection holds in the index model
MaxChunks == 12       \* largest collection drawn for the query model
MaxK == 12            \* largest k handed to retrieve_with_metadata
MaxHist == 2          \* longest chat history handed to GraphBuilder.run
MaxStored == 2        \* largest collection drawn for the pipeline model
MaxTurns == 3         \* longest chat history and largest MAX_HISTORY_TURNS of the history model
MaxTime == 1          \* last instant of the clock of the conversation model
MaxMsgs == 1          \* most messages in one session body
MaxSessions == 1      \* most sessions of the storage directory
MaxListed == 2        \* most sessions of the directory that is listed
MaxAppends == 1       \* most messages of a listed session
MaxLimit == 2         \* largest limit handed to list_conversations
MaxLog == 4           \* most messages of a session of the browser session
MAX_HISTORY_TURNS == 8   \* Config.MAX_HISTORY_TURNS (default)
TruncLen == 200       \* message[:200] in _format_history
MinLen == 20          \* a chunk is kept when len(content.strip()) > 20
RETRIEVAL_K == 10     \* Config.RETRIEVAL_K (default)

Inst == {1, 2}        \* VectorStore instances (sessions) sharing one persist dir
Names == {"a.pdf", "b.pdf", "unknown"}   \* values of metadata pdf_name
Files == Names \ {"unknown"}
\* The chunks handed to ingest: pdf_name and len(page_content.strip()). A chunk
\* at the threshold is dropped whatever its file, so one such chunk stands for
\* them all.
Chunk == [pdf_name : Names, len : {MinLen + 1}] \cup [pdf_name : {"a.pdf"}, len : {MinLen}]

RECURSIVE SeqsUpTo(_, _)
SeqsUpTo(S, n) ==
    IF n = 0 THEN {<<>>}
    ELSE LET shorter == SeqsUpTo(S, n - 1)
         IN shorter \cup {Append(s, x) : s \in {t \in shorter : Len(t) = n - 1}, x \in S}

DocSeqs == SeqsUpTo(Chunk, MaxDocs)

Min(a, b) == IF a < b THEN a ELSE b

\* ------------------------------------------------------------------------
\* State
\* ------------------------------------------------------------------------
VARIABLES
    autoPersist,     \* the Chroma build: TRUE when add_texts/from_texts write through
    idxFile,         \* indexed_files.json on disk
    store,           \* the persisted collection: durable vectors per pdf_name
    pend,            \* pend[i]: vectors added by instance i and not yet durable
    pc,              \* pc[i]: position of instance i
    vectorstore,     \* self.vectorstore: "none", "live" or "stale" handle
    retriever,       \* self.retriever: "none", "live" or "stale" handle
    indexed_files,   \* self.indexed_files
    op,              \* locals of the ingest call in flight
    lastOp,          \* outcome of the last completed operation of instance i
    failed,          \* the last ingest that ended after appending without marking
    gb,              \* retriever captured by GraphBuilder(retriever=...)
    lastQ,           \* outcome of the last query
    arg,             \* the chunk sequence a caller holds to ingest again
    pipe,            \* the GraphBuilder.run call of the session: stage, RAGState, result
    config,          \* class Config as read from the environment at import
    bodies,          \* the session body files <id>.json of the storage directory
    indexFile,       \* index.json of the storage directory
    conversations,   \* self.conversations of each ConversationManager
    cpc,             \* cpc[m]: position of manager m
    cop,             \* locals of the add_message call of manager m in flight
    now,             \* datetime.now()
    lastC,           \* outcome of the last completed call on the conversation store
    created,         \* the ids create_conversation has returned so far
    session          \* st.session_state of the browser session and its handler in flight

vsVars == <<autoPersist, idxFile, store, pend, pc, vectorstore, retriever,
            indexed_files, op, lastOp, failed, gb, lastQ, arg>>

vsVarsButQ == <<autoPersist, idxFile, store, pend, pc, vectorstore, retriever,
                indexed_files, op, lastOp, failed, gb, arg>>

storeVars == <<bodies, indexFile, conversations, cpc, cop, now, lastC, created>>

convVars == <<storeVars, session>>

vars == <<vsVars, pipe, config, convVars>>

ZeroBag == [n \in Names |-> 0]
Total(c) == c["a.pdf"] + c["b.pdf"] + c["unknown"]
Plus(c, d) == [n \in Names |-> c[n] + d[n]]

\* metadatas of the texts handed to Chroma, counted per pdf_name
CountBag(docs) == [n \in Names |-> Cardinality({j \in DOMAIN docs : docs[j].pdf_name = n})]
Origins(docs) == {docs[j].pdf_name : j \in DOMAIN docs}

NoOp == [kind |-> "none", docs |-> <<>>, files |-> {}, saveFailed |-> FALSE,
         ofArg |-> FALSE, retry |-> FALSE, repeat |-> FALSE, prevRet |-> 0,
         overlap |-> FALSE]

NoRes == [kind |-> "none", outcome |-> "none", ret |-> 0, files |-> {},
          saveFailed |-> FALSE, persistFailed |-> FALSE,
          ofArg |-> FALSE, retry |-> FALSE, repeat |-> FALSE, prevRet |-> 0,
          overlap |-> FALSE]

NoFail == [set |-> FALSE, ofArg |-> FALSE, files |-> {}]
NoQuery == [inst |-> 0, path |-> "none", k |-> 0, out |-> "none", res |-> <<>>,
            vsNone |-> FALSE, count |-> 0]
\* ------------------------------------------------------------------------
\* Values of the answer pipeline
\* ------------------------------------------------------------------------
\* Python values that come out of json.loads or go into a RAGState field carry
\* their type: a str is a sequence of text pieces, a float is in hundredths
Txt(s) == [t |-> "str", v |-> s]
Num(n) == [t |-> "num", v |-> n]
Lst(l) == [t |-> "list", v |-> l]
Obj(f) == [t |-> "dict", v |-> f]

\* a message of a chat turn: which text it is and how many characters of it
Msg(text, len) == [text |-> text, len |-> len]

Questions == {"q"}
Roles == {"user", "assistant"}
Turns == {<<r, Msg("m", 1)>> : r \in Roles}
HistSeqs == SeqsUpTo(Turns, MaxHist)

\* turns whose messages are as long as the truncation allows, and longer
LongTurns == {<<r, m>> : r \in Roles, m \in {Msg("m1", TruncLen), Msg("m2", TruncLen + 1)}}
LongHistSeqs == SeqsUpTo(LongTurns, MaxTurns)

DefaultConfig == [MAX_HISTORY_TURNS |-> MAX_HISTORY_TURNS]

\* RAGState(question=..., retrieved_docs=..., chat_history=...) with the
\* defaults of the other fields (rag_state.py)
RAGState(question, retrieved_docs, chat_history) ==
    [question |-> question, retrieved_docs |-> retrieved_docs,
     answer |-> Txt(<<>>), reasoning |-> Txt(<<>>), hypothesis |-> Txt(<<>>),
     suggestions |-> Lst(<<>>), sources |-> Lst(<<>>),
     chat_history |-> chat_history, confidence_score |-> Num(0)]

\* pydantic's validation of the RAGState fields filled from the parsed response
ValidState(s) ==
    /\ s.answer.t = "str"
    /\ s.reasoning.t = "str"
    /\ s.hypothesis.t = "str"
    /\ s.suggestions.t = "list"
    /\ \A j \in DOMAIN s.suggestions.v : s.suggestions.v[j].t = "str"
    /\ s.sources.t = "list"
    /\ s.confidence_score.t = "num"

NoResult == [answer |-> Txt(<<>>), reasoning |-> Txt(<<>>), hypothesis |-> Txt(<<>>),
             suggestions |-> Lst(<<>>), sources |-> Lst(<<>>), retrieved_docs |-> <<>>,
             confidence_score |-> Num(0), question |-> ""]

\* no run of the pipeline has been asked for
NoRun == [st |-> "idle", question |-> "", chat_history |-> <<>>,
          state |-> RAGState("", <<>>, <<>>), retrieval |-> "none",
          history_text |-> <<>>,
          completion |-> "none", response_text |-> <<>>, error |-> "none",
          result |-> NoResult]

\* stages at which GraphBuilder.run is not executing
Settled == {"idle", "returned", "raised"}

\* pieces of a completion text
Fence == "<fence>"
JsonWord == "json"
Newline == "<nl>"
Prose == "Here is what I found"

\* JSON documents a completion can carry, each one piece of text, and the value
\* json.loads gives for each
FullObject ==
    Obj([answer |-> Txt(<<"A">>), reasoning |-> Txt(<<"R">>), hypothesis |-> Txt(<<"H">>),
         suggestions |-> Lst(<<Txt(<<"S">>)>>),
         sources |-> Lst(<<[index |-> 1, source |-> "cited.pdf"]>>),
         confidence |-> Num(85)])

JsonDoc ==
    [d \in {"{full}", "{}", "{answer,confidence:1.5}", "{answer,confidence:high}",
            "[1]"} |->
        CASE d = "{full}" -> FullObject
          [] d = "{}" -> Obj(<<>>)
          [] d = "{answer,confidence:1.5}" ->
                Obj([answer |-> Txt(<<"A">>), confidence |-> Num(150)])
          [] d = "{answer,confidence:high}" ->
                Obj([answer |-> Txt(<<"A">>), confidence |-> Txt(<<"high">>)])
          [] d = "[1]" -> Lst(<<Num(1)>>)]

\* a JSON object one of whose string values holds a fence marker, in three
\* pieces, and the value json.loads gives for it
FenceInString == <<"{answer:use", Fence, "for code}">>
FenceObject == Obj([answer |-> Txt(<<"use", Fence, "for code">>)])

\* the texts json.loads accepts, and what it returns for each
JsonTexts == {<<d>> : d \in DOMAIN JsonDoc} \cup {FenceInString}
JsonValue(text) == IF text = FenceInString THEN FenceObject ELSE JsonDoc[text[1]]

\* the texts that denote a JSON object
ObjectTexts == {j \in JsonTexts : JsonValue(j).t = "dict"}

\* a JSON text as a completion wraps it in a fenced code block
FencedJson(j) == <<Fence, JsonWord, Newline>> \o j \o <<Newline, Fence>>
FencedPlain(j) == <<Fence, Newline>> \o j \o <<Newline, Fence>>

\* response.content of the completions the model draws from
Responses ==
    JsonTexts
        \cup {FencedJson(j) : j \in {<<"{full}">>, FenceInString}}
        \cup {FencedPlain(j) : j \in {<<"{full}">>, FenceInString}}
        \cup {<<Prose>> \o FencedPlain(<<"{full}">>),
              <<Fence, JsonWord, Newline, "{full}">>,
              <<Prose>>,
              <<>>}

\* outcomes of self.llm.invoke(messages): it raises, or it returns a response
Completions == {[raised |-> TRUE, text |-> <<>>]}
                   \cup {[raised |-> FALSE, text |-> r] : r \in Responses}


\* ------------------------------------------------------------------------
\* Values of the conversation store
\* ------------------------------------------------------------------------
Mgr == {1, 2}                         \* ConversationManager instances, one per session
Titles == {"t", "Conversation <minute>"}
Times == 0 .. MaxTime
\* a conversation id is the md5 of title and timestamp, cut to 12 hex digits:
\* equal for equal title and timestamp
Ids == Titles \X Times

NewTitles == {"t2"}                   \* titles a rename gives

NoCall == [id |-> <<"t", 0>>, body |-> <<>>, overlap |-> FALSE]
NoOutcome == [outcome |-> "none", saved |-> TRUE, overlap |-> FALSE, ret |-> "None",
              listed |-> <<>>]

\* st.session_state as main() leaves it on the first run of the script (lines
\* 185-198): no current conversation (the empty set stands for None), an empty
\* chat_history; at is the position of the Search handler
NoSession == [current_conversation_id |-> {}, chat_history |-> <<>>, at |-> "idle",
              question |-> ""]

\* an empty storage directory and no manager yet
NoConversations ==
    /\ bodies = <<>>
    /\ indexFile = [st |-> "absent", entries |-> <<>>]
    /\ conversations = [m \in Mgr |-> <<>>]
    /\ cpc = [m \in Mgr |-> "unborn"]
    /\ cop = [m \in Mgr |-> NoCall]
    /\ now = 0
    /\ lastC = [m \in Mgr |-> NoOutcome]
    /\ created = {}
    /\ session = NoSession

\* the set json.load gives for the file as it is on disk
PersistedSet == IF idxFile.st = "valid" THEN idxFile.files ELSE {}

\* collection.count() as instance i sees it
CollCount(i) == Total(store) + Total(pend[i])

\* VectorStore._load_indexed_files: the set in the file, set() when the file is
\* absent or json.load raises
\* variant: the set of indexed files is rebuilt from the origins of the vectors
\* found in the collection
load_indexed_files_from_collection == {f \in Files : store[f] > 0}

_load_indexed_files == IF idxFile.st = "valid" THEN idxFile.files ELSE {}

\* variant: membership is read from indexed_files.json, not from memory
is_file_indexed_on_disk(i, filename) == filename \in PersistedSet

is_file_indexed(i, filename) == filename \in indexed_files[i]

\* variant: the chunks of indexed files are skipped and no chunk is dropped for
\* its length
KeepNewAnyLength(i, d) ==
    ~(d.pdf_name # "unknown" /\ is_file_indexed(i, d.pdf_name))

\* add_documents, lines 157-167: the chunks that are neither skipped nor dropped
KeepNew(i, d) ==
    /\ ~(d.pdf_name # "unknown" /\ is_file_indexed(i, d.pdf_name))
    /\ d.len > MinLen
NewDocuments(i, docs) == SelectSeq(docs, LAMBDA d : KeepNew(i, d))
NewFiles(docs) == Origins(docs) \ {"unknown"}

\* create_vectorstore, lines 92-107: no membership test, only the length test
KeepText(d) == d.len > MinLen
CreateTexts(docs) == SelectSeq(docs, KeepText)

\* the record of a completed call
Result(o, outcome, ret, pf) ==
    [kind |-> o.kind, outcome |-> outcome, ret |-> ret, files |-> o.files,
     saveFailed |-> o.saveFailed, persistFailed |-> pf,
     ofArg |-> o.ofArg, retry |-> o.retry, repeat |-> o.repeat, prevRet |-> o.prevRet,
     overlap |-> o.overlap]

\* the call ingests arg again right after an add_documents(arg) that returned
IsRepeat(i, kind, input) ==
    /\ kind \in {"add", "add_create"} /\ input = arg
    /\ lastOp[i].kind \in {"add", "add_create"}
    /\ lastOp[i].outcome = "returned" /\ lastOp[i].ofArg

\* the call ingests arg again after an ingest of arg that failed or died
IsRetry(kind, input) ==
    kind \in {"add", "add_create"} /\ input = arg /\ failed.set /\ failed.ofArg

\* the locals of a call of the given kind on entry
Started(i, kind, input, docs) ==
    [kind |-> kind, docs |-> docs, files |-> NewFiles(docs), saveFailed |-> FALSE,
     ofArg |-> (input = arg),
     retry |-> IsRetry(kind, input),
     repeat |-> IsRepeat(i, kind, input),
     prevRet |-> IF IsRepeat(i, kind, input) THEN lastOp[i].ret ELSE 0,
     overlap |-> \E j \in Inst \ {i} : pc[j] \in {"embed", "save", "persist"}]

Init ==
    /\ autoPersist \in BOOLEAN
    /\ idxFile = [st |-> "absent", files |-> {}]
    /\ store = ZeroBag
    /\ pend = [i \in Inst |-> ZeroBag]
    /\ pc = [i \in Inst |-> "unborn"]
    /\ vectorstore = [i \in Inst |-> "none"]
    /\ retriever = [i \in Inst |-> "none"]
    /\ indexed_files = [i \in Inst |-> {}]
    /\ op = [i \in Inst |-> NoOp]
    /\ lastOp = [i \in Inst |-> NoRes]
    /\ failed = NoFail
    /\ gb = [i \in Inst |-> "none"]
    /\ lastQ = NoQuery
    /\ pipe = NoRun
    /\ config = DefaultConfig
    /\ NoConversations
    /\ arg = <<>>

\* VectorStore.__init__
VectorStoreInit(i) ==
    /\ pc[i] = "unborn"
    /\ pc' = [pc EXCEPT ![i] = "idle"]
    /\ indexed_files' = [indexed_files EXCEPT ![i] = _load_indexed_files]
    /\ vectorstore' = [vectorstore EXCEPT ![i] = "none"]
    /\ retriever' = [retriever EXCEPT ![i] = "none"]
    /\ lastQ' = NoQuery
    /\ UNCHANGED <<config, convVars, pipe, arg, autoPersist, idxFile, store, pend, op, lastOp, failed, gb>>

\* VectorStore.load_vectorstore: Chroma(persist_directory=...) gets or creates
\* the collection, the retriever is built on it
load_vectorstore(i) ==
    /\ pc[i] = "idle"
    /\ vectorstore' = [vectorstore EXCEPT ![i] = "live"]
    /\ retriever' = [retriever EXCEPT ![i] = "live"]
    /\ lastOp' = [lastOp EXCEPT ![i] =
                    Result(Started(i, "load", <<>>, <<>>), "returned", 0, FALSE)]
    /\ lastQ' = NoQuery
    /\ UNCHANGED <<config, convVars, pipe, arg, autoPersist, idxFile, store, pend, pc, indexed_files, op, failed, gb>>

\* VectorStore.create_vectorstore called by build_system / initialize_system:
\* the empty-input branch returns at once, otherwise the texts are selected and
\* the call goes on to Chroma.from_texts
create_vectorstore(i, documents) ==
    /\ pc[i] = "idle"
    /\ CollCount(i) + Len(CreateTexts(documents)) <= MaxColl
    /\ IF documents = <<>>
       THEN /\ vectorstore' = [vectorstore EXCEPT ![i] = "live"]
            /\ retriever' = [retriever EXCEPT ![i] = "live"]
            /\ lastOp' = [lastOp EXCEPT ![i] =
                            Result(Started(i, "create", documents, <<>>), "returned", 0,
                                   FALSE)]
            /\ UNCHANGED <<pc, op>>
       ELSE /\ pc' = [pc EXCEPT ![i] = "embed"]
            /\ op' = [op EXCEPT ![i] = Started(i, "create", documents, CreateTexts(documents))]
            /\ lastOp' = [lastOp EXCEPT ![i] = NoRes]
            /\ UNCHANGED <<vectorstore, retriever>>
    /\ failed' = NoFail
    /\ lastQ' = NoQuery
    /\ UNCHANGED <<config, convVars, pipe, arg, autoPersist, idxFile, store, pend, indexed_files, gb>>

\* VectorStore.add_documents up to the first external call (lines 148-181)
add_documents(i, documents) ==
    /\ pc[i] = "idle"
    /\ CollCount(i) + Len(NewDocuments(i, documents)) <= MaxColl
    /\ LET new_documents == NewDocuments(i, documents)
           kind == IF vectorstore[i] = "none" THEN "add_create" ELSE "add"
       IN IF documents = <<>> \/ new_documents = <<>>
          THEN /\ lastOp' = [lastOp EXCEPT ![i] =
                               Result(Started(i, "add", documents, <<>>), "returned", 0,
                                      FALSE)]
               /\ UNCHANGED <<pc, op>>
          ELSE /\ pc' = [pc EXCEPT ![i] = "embed"]
               /\ op' = [op EXCEPT ![i] = Started(i, kind, documents, new_documents)]
               /\ lastOp' = [lastOp EXCEPT ![i] = NoRes]
    /\ failed' = NoFail
    /\ lastQ' = NoQuery
    /\ UNCHANGED <<config, convVars, pipe, arg, autoPersist, idxFile, store, pend, vectorstore, retriever,
                   indexed_files, gb>>

\* the collection and the instance's buffer after n texts of the call were added
AppendedStore(i, n) ==
    IF autoPersist THEN Plus(store, CountBag(SubSeq(op[i].docs, 1, n))) ELSE store
AppendedPend(i, n) ==
    IF autoPersist
    THEN pend
    ELSE [pend EXCEPT ![i] = Plus(pend[i], CountBag(SubSeq(op[i].docs, 1, n)))]

\* self.vectorstore.add_texts (line 196) or Chroma.from_texts (line 112): all
\* texts are embedded and appended
EmbedOk(i) ==
    /\ pc[i] = "embed"
    /\ op[i].kind = "add" => vectorstore[i] = "live"
    /\ op[i].kind = "create" => op[i].docs # <<>>
    /\ store' = AppendedStore(i, Len(op[i].docs))
    /\ pend' = AppendedPend(i, Len(op[i].docs))
    /\ vectorstore' = [vectorstore EXCEPT ![i] = "live"]
    /\ pc' = [pc EXCEPT ![i] = "save"]
    /\ UNCHANGED <<config, convVars, pipe, arg, autoPersist, idxFile, retriever, indexed_files, op, lastOp, failed,
                   gb, lastQ>>

\* from_texts of an empty text list: the library either raises or leaves an
\* empty collection
EmbedEmpty(i) ==
    /\ pc[i] = "embed"
    /\ op[i].kind = "create" /\ op[i].docs = <<>>
    /\ \/ /\ vectorstore' = [vectorstore EXCEPT ![i] = "live"]
          /\ pc' = [pc EXCEPT ![i] = "save"]
          /\ UNCHANGED <<lastOp, op>>
       \/ /\ pc' = [pc EXCEPT ![i] = "idle"]
          /\ lastOp' = [lastOp EXCEPT ![i] = Result(op[i], "raised", 0, FALSE)]
          /\ op' = [op EXCEPT ![i] = NoOp]
          /\ UNCHANGED vectorstore
    /\ UNCHANGED <<config, convVars, pipe, arg, autoPersist, idxFile, store, pend, retriever, indexed_files, failed,
                   gb, lastQ>>

\* the embedding call or the append fails after n texts: the exception leaves
\* add_documents / create_vectorstore before self.indexed_files.update (lines
\* 120, 202); add_texts on the handle of a deleted collection raises at once
EmbedRaise(i) ==
    /\ pc[i] = "embed"
    /\ op[i].docs # <<>>
    /\ \E n \in 0 .. (Len(op[i].docs) - 1) :
         /\ (op[i].kind = "add" /\ vectorstore[i] = "stale") => n = 0
         /\ store' = AppendedStore(i, n)
         /\ pend' = AppendedPend(i, n)
    /\ lastOp' = [lastOp EXCEPT ![i] = Result(op[i], "raised", 0, FALSE)]
    /\ failed' = [set |-> TRUE, ofArg |-> op[i].ofArg, files |-> op[i].files]
    /\ pc' = [pc EXCEPT ![i] = "idle"]
    /\ op' = [op EXCEPT ![i] = NoOp]
    /\ UNCHANGED <<config, convVars, pipe, arg, autoPersist, idxFile, vectorstore, retriever, indexed_files, gb, lastQ>>

\* what open(path, 'w') + json.dump leave on disk: the new set, the old file
\* (open failed), or a truncated file (the dump failed)
WriteOutcomes == {"ok", "unchanged", "corrupt"}
Written(w, files) ==
    CASE w = "ok" -> [st |-> "valid", files |-> files]
      [] w = "unchanged" -> idxFile
      [] OTHER -> [st |-> "corrupt", files |-> {}]

\* the set kept in memory once the call has added its files (lines 120, 202)
Updated(i) == indexed_files[i] \cup op[i].files

\* self.indexed_files.update(new_files); self._save_indexed_files() (lines
\* 120-127 and 202-203): a failed write is printed and swallowed
SaveStep(i) ==
    /\ pc[i] = "save"
    /\ \E w \in WriteOutcomes :
         /\ idxFile' = Written(w, Updated(i))
         /\ op' = [op EXCEPT ![i].saveFailed = (w # "ok")]
    /\ indexed_files' = [indexed_files EXCEPT ![i] = Updated(i)]
    /\ retriever' = [retriever EXCEPT ![i] =
                       IF op[i].kind \in {"create", "add_create"} THEN "live" ELSE @]
    /\ pc' = [pc EXCEPT ![i] = "persist"]
    /\ UNCHANGED <<config, convVars, pipe, arg, autoPersist, store, pend, vectorstore, lastOp, failed, gb, lastQ>>

\* self.vectorstore.persist() inside try/except (lines 129-135 and 205-211),
\* then the return of len(new_documents)
PersistStep(i) ==
    /\ pc[i] = "persist"
    /\ \E ok \in BOOLEAN :
         /\ ~ok => ~autoPersist
         /\ store' = IF ok /\ vectorstore[i] = "live" THEN Plus(store, pend[i]) ELSE store
         /\ pend' = IF ok /\ vectorstore[i] = "live"
                    THEN [pend EXCEPT ![i] = ZeroBag] ELSE pend
         /\ lastOp' = [lastOp EXCEPT ![i] =
                         Result(op[i], "returned", Len(op[i].docs), ~ok)]
    /\ pc' = [pc EXCEPT ![i] = "idle"]
    /\ op' = [op EXCEPT ![i] = NoOp]
    /\ UNCHANGED <<config, convVars, pipe, arg, autoPersist, idxFile, vectorstore, retriever, indexed_files, failed,
                   gb, lastQ>>

\* the handles on a collection that has been deleted
Stale(h) == [j \in Inst |-> IF h[j] = "live" THEN "stale" ELSE h[j]]

\* VectorStore.delete_collection
delete_collection(i) ==
    /\ pc[i] = "idle"
    /\ \E ok \in BOOLEAN :
         /\ ok => vectorstore[i] = "live"
         /\ IF ok
            THEN /\ store' = ZeroBag
                 /\ pend' = [j \in Inst |-> ZeroBag]
                 /\ vectorstore' = [Stale(vectorstore) EXCEPT ![i] = "none"]
                 /\ retriever' = [Stale(retriever) EXCEPT ![i] = "none"]
                 /\ gb' = Stale(gb)
            ELSE /\ store' = store
                 /\ pend' = [pend EXCEPT ![i] = ZeroBag]
                 /\ vectorstore' = [vectorstore EXCEPT ![i] = "none"]
                 /\ retriever' = [retriever EXCEPT ![i] =
                                    IF vectorstore[i] = "none" THEN @ ELSE "none"]
                 /\ gb' = gb
    /\ indexed_files' = [indexed_files EXCEPT ![i] = {}]
    /\ idxFile' = [st |-> "absent", files |-> {}]
    /\ lastOp' = [lastOp EXCEPT ![i] =
                    Result(Started(i, "delete", <<>>, <<>>), "returned", 0, FALSE)]
    /\ failed' = NoFail
    /\ lastQ' = NoQuery
    /\ UNCHANGED <<config, convVars, pipe, arg, autoPersist, pc, op>>

\* the process of instance i dies: its memory is lost, the disk stays. A crash
\* during add_texts leaves the texts added so far, a crash during the write of
\* indexed_files.json may leave a truncated file
Crash(i) ==
    /\ pc[i] # "unborn"
    /\ \E n \in 0 .. Len(op[i].docs), torn \in BOOLEAN :
         /\ n > 0 => /\ pc[i] = "embed" /\ autoPersist
                     /\ (op[i].kind = "add" => vectorstore[i] = "live")
         /\ torn => pc[i] = "save"
         /\ store' = IF n > 0 THEN AppendedStore(i, n) ELSE store
         /\ idxFile' = IF torn THEN [st |-> "corrupt", files |-> {}] ELSE idxFile
    /\ failed' = IF pc[i] \in {"embed", "save"}
                 THEN [set |-> TRUE, ofArg |-> op[i].ofArg, files |-> op[i].files]
                 ELSE failed
    /\ pend' = [pend EXCEPT ![i] = ZeroBag]
    /\ pc' = [pc EXCEPT ![i] = "unborn"]
    /\ vectorstore' = [vectorstore EXCEPT ![i] = "none"]
    /\ retriever' = [retriever EXCEPT ![i] = "none"]
    /\ indexed_files' = [indexed_files EXCEPT ![i] = {}]
    /\ gb' = [gb EXCEPT ![i] = "none"]
    /\ op' = [op EXCEPT ![i] = NoOp]
    /\ lastOp' = [lastOp EXCEPT ![i] = [NoRes EXCEPT !.kind = "crash"]]
    /\ lastQ' = NoQuery
    /\ pipe' = NoRun
    /\ UNCHANGED <<config, convVars, arg, autoPersist>>

\* VectorStore.get_collection_stats
get_collection_stats(i) ==
    IF vectorstore[i] = "none"
    THEN [status |-> "not_initialized", document_count |-> 0,
          indexed_files_count |-> Cardinality(indexed_files[i])]
    ELSE IF vectorstore[i] = "stale"
    THEN [status |-> "error", document_count |-> 0,
          indexed_files_count |-> Cardinality(indexed_files[i])]
    ELSE [status |-> "ready", document_count |-> CollCount(i),
          indexed_files_count |-> Cardinality(indexed_files[i])]

\* The similarity ranking of the n stored chunks for a query: chunk r is the
\* r-th most similar one
Ranking(n) == [r \in 1 .. n |-> r]

\* retriever.get_relevant_documents / retriever.invoke on a retriever built with
\* search_kwargs {"k": Config.RETRIEVAL_K}: the top RETRIEVAL_K of the ranking,
\* or the embedding call fails. On the handle of a deleted collection the
\* library raises or answers from nothing.
RetrieverInvoke(h, n) ==
    IF h = "live"
    THEN {[out |-> "ok", res |-> SubSeq(Ranking(n), 1, Min(RETRIEVAL_K, n))],
          [out |-> "GatewayError", res |-> <<>>]}
    ELSE {[out |-> "LibraryError", res |-> <<>>], [out |-> "ok", res |-> <<>>]}

\* VectorStore.get_retriever
get_retriever(i) ==
    IF retriever[i] = "none" THEN "RuntimeError" ELSE retriever[i]

\* docs[:k] of retrieve_with_metadata (line 256)
FirstK(docs, k) == SubSeq(docs, 1, Min(k, Len(docs)))

\* k = k or Config.RETRIEVAL_K (line 250); k = 0 also stands for k omitted
EffectiveK(k) == IF k = 0 THEN RETRIEVAL_K ELSE k

\* VectorStore.retrieve_with_metadata(query, k)
retrieve_with_metadata(i, k) ==
    /\ pc[i] = "idle"
    /\ pipe.st \in Settled
    /\ IF get_retriever(i) = "RuntimeError"
       THEN lastQ' = [inst |-> i, path |-> "retrieve_with_metadata", k |-> k,
                      out |-> "NotInitialized", res |-> <<>>,
                      vsNone |-> (vectorstore[i] = "none"), count |-> CollCount(i)]
       ELSE \E r \in RetrieverInvoke(get_retriever(i), CollCount(i)) :
              lastQ' = [inst |-> i, path |-> "retrieve_with_metadata", k |-> k,
                        out |-> r.out, res |-> FirstK(r.res, EffectiveK(k)),
                        vsNone |-> (vectorstore[i] = "none"), count |-> CollCount(i)]
    /\ UNCHANGED <<config, convVars, pipe, arg, autoPersist, idxFile, store, pend, pc, vectorstore, retriever,
                   indexed_files, op, lastOp, failed, gb>>

\* GraphBuilder(retriever=vector_store.get_retriever(), llm=llm) in build_system
\* (main.py 77-80) and initialize_system (streamlit_app.py 227-230)
GraphBuilderInit(i) ==
    /\ pc[i] = "idle"
    /\ gb[i] = "none"
    /\ IF get_retriever(i) = "RuntimeError"
       THEN /\ lastQ' = [inst |-> i, path |-> "build", k |-> 0, out |-> "NotInitialized",
                         res |-> <<>>, vsNone |-> (vectorstore[i] = "none"),
                         count |-> CollCount(i)]
            /\ UNCHANGED gb
       ELSE /\ gb' = [gb EXCEPT ![i] = get_retriever(i)]
            /\ lastQ' = NoQuery
    /\ UNCHANGED <<config, convVars, pipe, arg, autoPersist, idxFile, store, pend, pc, vectorstore, retriever,
                   indexed_files, op, lastOp, failed>>

\* ------------------------------------------------------------------------
\* The answer pipeline (GraphBuilder, RAGNodes)
\* ------------------------------------------------------------------------
\* GraphBuilder.run(question, chat_history) up to graph.invoke: the graph is
\* built on first use and the initial RAGState enters the retriever node
run(i, question, chat_history) ==
    /\ pc[i] = "idle"
    /\ gb[i] # "none"
    /\ pipe.st \in Settled
    /\ pipe' = [NoRun EXCEPT !.st = "start", !.question = question,
                             !.chat_history = chat_history,
                             !.state = RAGState(question, <<>>, chat_history)]
    /\ lastQ' = NoQuery
    /\ UNCHANGED <<vsVarsButQ, config, storeVars>>

\* RAGNodes.retrieve_docs: self.retriever.invoke on the retriever captured at
\* construction; nothing catches what it raises, in the node, in the graph or
\* in GraphBuilder.run
retrieve_docs(i) ==
    /\ pc[i] = "idle"
    /\ pipe.st = "start"
    /\ \E r \in RetrieverInvoke(gb[i], CollCount(i)) :
         /\ lastQ' = [inst |-> i, path |-> "pipeline", k |-> 0, out |-> r.out,
                      res |-> r.res, vsNone |-> (vectorstore[i] = "none"),
                      count |-> CollCount(i)]
         /\ pipe' = IF r.out = "ok"
                    THEN [pipe EXCEPT !.st = "retrieved", !.retrieval = "ok",
                                      !.state = RAGState(pipe.state.question, r.res,
                                                         pipe.state.chat_history)]
                    ELSE [pipe EXCEPT !.st = "raised", !.retrieval = r.out,
                                      !.error = r.out]
    /\ UNCHANGED <<vsVarsButQ, config, convVars>>

\* text[lo:hi] of Python, on pieces: the pieces lo .. hi - 1, none when hi <= lo
Slice(text, lo, hi) == SubSeq(text, lo, hi - 1)

\* str.strip() on pieces
RECURSIVE Strip(_)
Strip(text) ==
    IF text = <<>> THEN <<>>
    ELSE IF Head(text) = Newline THEN Strip(Tail(text))
    ELSE IF text[Len(text)] = Newline THEN Strip(SubSeq(text, 1, Len(text) - 1))
    ELSE text

\* positions of "```json" and of "```" in the text
FenceJsonAt(text) ==
    {p \in 1 .. Len(text) - 1 : text[p] = Fence /\ text[p + 1] = JsonWord}
FenceAt(text) == {p \in 1 .. Len(text) : text[p] = Fence}
First(S) == CHOOSE p \in S : \A q \in S : p <= q
Last(S) == CHOOSE p \in S : \A q \in S : q <= p

\* lines 314-323: the text handed to json.loads
JsonText(text) ==
    IF FenceJsonAt(text) # {}
    THEN Strip(Slice(text, First(FenceJsonAt(text)) + 2, Last(FenceAt(text))))
    ELSE IF FenceAt(text) # {}
    THEN Strip(Slice(text, First(FenceAt(text)) + 1, Last(FenceAt(text))))
    ELSE Strip(text)

\* json.loads succeeds on exactly one JSON document
Loads(text) == text \in JsonTexts

\* RAGNodes._parse_llm_response
_parse_llm_response(response_text) ==
    IF Loads(JsonText(response_text))
    THEN JsonValue(JsonText(response_text))
    ELSE Obj([answer |-> Txt(response_text), reasoning |-> Txt(<<>>),
              hypothesis |-> Txt(<<>>), suggestions |-> Lst(<<>>),
              sources |-> Lst(<<>>), confidence |-> Num(50)])

\* dict.get(key, default)
Get(parsed, key, default) ==
    IF key \in DOMAIN parsed.v THEN parsed.v[key] ELSE default

\* lines 66-82: one citation per retrieved chunk, at most 15, numbered from 1
SourcesList(retrieved_docs) ==
    [j \in 1 .. Min(15, Len(retrieved_docs)) |->
        [index |-> j, source |-> retrieved_docs[j]]]

ErrorAnswer ==
    "I encountered an error generating a comprehensive answer. Please try rephrasing your question."

\* variant: the fallback answer keeps the neutral confidence of the parse
\* fallback and offers no suggestions
ErrorFallbackNeutral(state, sources_list) ==
    [state EXCEPT !.answer = Txt(<<ErrorAnswer>>),
                  !.reasoning = Txt(<<"Error in LLM response generation">>),
                  !.hypothesis = Txt(<<>>),
                  !.suggestions = Lst(<<>>),
                  !.sources = Lst(sources_list),
                  !.confidence_score = Num(50)]

\* the except branch of generate_answer (lines 271-285)
ErrorFallback(state, sources_list) ==
    [state EXCEPT !.answer = Txt(<<ErrorAnswer>>),
                  !.reasoning = Txt(<<"Error in LLM response generation">>),
                  !.hypothesis = Txt(<<>>),
                  !.suggestions = Lst(<<Txt(<<"Try rephrasing the question">>),
                                        Txt(<<"Check if documents are relevant">>)>>),
                  !.sources = Lst(sources_list),
                  !.confidence_score = Num(0)]

\* the RAGState built from the parsed response (lines 258-269)
Answered(state, parsed, sources_list) ==
    [state EXCEPT !.answer = Get(parsed, "answer", Txt(<<"Unable to generate answer">>)),
                  !.reasoning = Get(parsed, "reasoning", Txt(<<>>)),
                  !.hypothesis = Get(parsed, "hypothesis", Txt(<<>>)),
                  !.suggestions = Get(parsed, "suggestions", Lst(<<>>)),
                  !.sources = Get(parsed, "sources", Lst(sources_list)),
                  !.confidence_score = Get(parsed, "confidence", Num(0))]

Upper(role) == IF role = "user" THEN "USER" ELSE "ASSISTANT"

\* history[-n:] of Python for n >= 0: the last n turns, and the whole history
\* for n = 0, since -0 is 0
LastTurns(history, n) ==
    IF n = 0 \/ n >= Len(history) THEN history
    ELSE SubSeq(history, Len(history) - n + 1, Len(history))

\* RAGNodes._format_history: the lines of the returned text
_format_history(history) ==
    IF history = <<>> THEN <<[line |-> "No previous conversation"]>>
    ELSE [j \in 1 .. Len(LastTurns(history, config.MAX_HISTORY_TURNS)) |->
            LET turn == LastTurns(history, config.MAX_HISTORY_TURNS)[j]
            IN [line |-> "turn", role |-> Upper(turn[1]),
                message |-> Msg(turn[2].text, Min(turn[2].len, TruncLen))]]

\* the state generate_answer returns for an outcome of the completion call:
\* parsed.get on a value that is no dict and a field of the wrong type both
\* raise inside the try
GenerateAnswer(state, c) ==
    LET sources_list == SourcesList(state.retrieved_docs)
        parsed == _parse_llm_response(c.text)
    IN IF c.raised THEN ErrorFallback(state, sources_list)
       ELSE IF parsed.t # "dict" THEN ErrorFallback(state, sources_list)
       ELSE IF ~ValidState(Answered(state, parsed, sources_list))
       THEN ErrorFallback(state, sources_list)
       ELSE Answered(state, parsed, sources_list)

\* RAGNodes.generate_answer, the responder node
generate_answer(C) ==
    /\ pipe.st = "retrieved"
    /\ \E c \in C :
         pipe' = [pipe EXCEPT !.st = "answered",
                              !.completion = IF c.raised THEN "raised" ELSE "returned",
                              !.response_text = c.text,
                              !.history_text = _format_history(pipe.state.chat_history),
                              !.state = GenerateAnswer(pipe.state, c)]
    /\ UNCHANGED <<vsVars, config, convVars>>

\* GraphBuilder.run after graph.invoke (lines 76-112): the result dictionary
run_return ==
    /\ pipe.st = "answered"
    /\ pipe' = [pipe EXCEPT !.st = "returned",
                  !.result = [answer |-> pipe.state.answer,
                              reasoning |-> pipe.state.reasoning,
                              hypothesis |-> pipe.state.hypothesis,
                              suggestions |-> pipe.state.suggestions,
                              sources |-> pipe.state.sources,
                              retrieved_docs |-> pipe.state.retrieved_docs,
                              confidence_score |-> pipe.state.confidence_score,
                              question |-> pipe.question]]
    /\ UNCHANGED <<vsVars, config, convVars>>

\* ------------------------------------------------------------------------
\* The conversation store (ConversationManager)
\* ------------------------------------------------------------------------
\* ConversationManager._load_index
_load_index == IF indexFile.st = "valid" THEN indexFile.entries ELSE <<>>

\* ConversationManager._generate_conversation_id
_generate_conversation_id(title) == <<title, now>>

\* a mapping with key k set to v, and with key k removed
With(f, k, v) == [x \in DOMAIN f \cup {k} |-> IF x = k THEN v ELSE f[x]]
Without(f, k) == [x \in DOMAIN f \ {k} |-> f[x]]

\* ConversationManager._save_index: what the write leaves in index.json
IndexWritten(w, entries) ==
    CASE w = "ok" -> [st |-> "valid", entries |-> entries]
      [] w = "unchanged" -> indexFile
      [] w = "corrupt" -> [st |-> "corrupt", entries |-> <<>>]

\* ConversationManager._save_conversation: what the write leaves in <id>.json
BodyWritten(w, id, data) ==
    CASE w = "ok" -> With(bodies, id, [st |-> "valid", data |-> data])
      [] w = "unchanged" -> bodies
      [] w = "corrupt" -> With(bodies, id, [st |-> "corrupt", data |-> <<>>])

\* ConversationManager.load_conversation returns a dictionary, not None
Loadable(id) == id \in DOMAIN bodies /\ bodies[id].st = "valid"

\* the outcome of a call of manager m that returned
Returned == [NoOutcome EXCEPT !.outcome = "returned"]

\* ConversationManager.__init__
ConversationManagerInit(m) ==
    /\ cpc[m] = "unborn"
    /\ cpc' = [cpc EXCEPT ![m] = "idle"]
    /\ conversations' = [conversations EXCEPT ![m] = _load_index]
    /\ UNCHANGED <<vsVars, pipe, config, bodies, indexFile, cop, now, lastC, created,
                   session>>

\* the clock advances
Tick ==
    /\ now < MaxTime
    /\ now' = now + 1
    /\ UNCHANGED <<vsVars, pipe, config, bodies, indexFile, conversations, cpc, cop, lastC,
                   created, session>>

\* create_conversation, lines 66-67: the default title
Named(title) == IF title = "" THEN "Conversation <minute>" ELSE title

\* ConversationManager.create_conversation
create_conversation(m, title) ==
    /\ cpc[m] = "idle"
    /\ LET named == Named(title)
           conversation_id == _generate_conversation_id(named)
           entry == [title |-> named, updated_at |-> now, query_count |-> 0]
           conversation_data == [title |-> named, updated_at |-> now,
                                 messages |-> <<>>, query_count |-> 0]
       IN /\ \E wi \in WriteOutcomes, wb \in WriteOutcomes :
               /\ conversations' = [conversations EXCEPT
                                      ![m] = With(@, conversation_id, entry)]
               /\ indexFile' = IndexWritten(wi, With(conversations[m], conversation_id,
                                                     entry))
               /\ bodies' = BodyWritten(wb, conversation_id, conversation_data)
               /\ lastC' = [lastC EXCEPT ![m] =
                              [Returned EXCEPT
                                 !.saved = (wi = "ok" /\ wb = "ok")]]
          /\ created' = created \cup {conversation_id}
    /\ UNCHANGED <<vsVars, pipe, config, cpc, cop, now>>

\* lines 139-144: the message dictionary; metadata or {} is the mapping given
Message(role, content, metadata) ==
    [role |-> role, content |-> content, timestamp |-> now, metadata |-> metadata]

\* ConversationManager.add_message up to the two writes (lines 135-154)
add_message(m, conversation_id, role, content, metadata) ==
    /\ cpc[m] = "idle"
    /\ IF ~Loadable(conversation_id)
       THEN /\ lastC' = [lastC EXCEPT ![m] = Returned]
            /\ UNCHANGED <<conversations, cpc, cop>>
       ELSE IF conversation_id \notin DOMAIN conversations[m]
       THEN /\ lastC' = [lastC EXCEPT ![m] =
                           [Returned EXCEPT !.outcome = "KeyError"]]
            /\ UNCHANGED <<conversations, cpc, cop>>
       ELSE LET loaded == bodies[conversation_id].data
                conversation ==
                    [loaded EXCEPT
                       !.messages = Append(@, Message(role, content, metadata)),
                       !.updated_at = now,
                       !.query_count = IF role = "user" THEN @ + 1 ELSE @]
            IN /\ conversations' =
                    [conversations EXCEPT
                       ![m][conversation_id].updated_at = conversation.updated_at,
                       ![m][conversation_id].query_count = conversation.query_count]
               /\ cop' = [cop EXCEPT ![m] =
                            [id |-> conversation_id, body |-> conversation,
                             overlap |-> \E o \in Mgr \ {m} : cpc[o] = "saving"]]
               /\ cpc' = [cpc EXCEPT ![m] = "saving"]
               /\ lastC' = [lastC EXCEPT ![m] = NoOutcome]
    /\ UNCHANGED <<vsVars, pipe, config, bodies, indexFile, now, created>>

\* ConversationManager.add_message: _save_index, then _save_conversation
\* (lines 155-158)
add_message_save(m) ==
    /\ cpc[m] = "saving"
    /\ \E wi \in WriteOutcomes, wb \in WriteOutcomes :
         /\ indexFile' = IndexWritten(wi, conversations[m])
         /\ bodies' = BodyWritten(wb, cop[m].id, cop[m].body)
         /\ lastC' = [lastC EXCEPT ![m] =
                        [Returned EXCEPT
                           !.saved = (wi = "ok" /\ wb = "ok"),
                           !.overlap = cop[m].overlap]]
    /\ cpc' = [cpc EXCEPT ![m] = "idle"]
    /\ cop' = [cop EXCEPT ![m] = NoCall]
    /\ UNCHANGED <<vsVars, pipe, config, conversations, now, created>>

\* ConversationManager.delete_conversation
delete_conversation(m, conversation_id) ==
    /\ cpc[m] = "idle"
    /\ IF conversation_id \notin DOMAIN conversations[m]
       THEN /\ lastC' = [lastC EXCEPT ![m] = [Returned EXCEPT !.ret = "False"]]
            /\ UNCHANGED <<bodies, indexFile, conversations>>
       ELSE \E unlinked \in BOOLEAN, wi \in WriteOutcomes :
              /\ ~unlinked => conversation_id \in DOMAIN bodies
              /\ bodies' = IF unlinked THEN Without(bodies, conversation_id) ELSE bodies
              /\ conversations' = [conversations EXCEPT ![m] = Without(@, conversation_id)]
              /\ indexFile' = IndexWritten(wi, Without(conversations[m], conversation_id))
              /\ lastC' = [lastC EXCEPT ![m] =
                             [Returned EXCEPT
                                !.saved = (wi = "ok" /\ unlinked),
                                !.ret = "True"]]
    /\ UNCHANGED <<vsVars, pipe, config, cpc, cop, now, created>>

\* ConversationManager.update_conversation_title
update_conversation_title(m, conversation_id, new_title) ==
    /\ cpc[m] = "idle"
    /\ IF conversation_id \notin DOMAIN conversations[m] \/ ~Loadable(conversation_id)
       THEN /\ lastC' = [lastC EXCEPT ![m] = Returned]
            /\ UNCHANGED <<bodies, indexFile, conversations>>
       ELSE \E wb \in WriteOutcomes, wi \in WriteOutcomes :
              /\ conversations' = [conversations EXCEPT
                                     ![m][conversation_id].title = new_title]
              /\ bodies' = BodyWritten(wb, conversation_id,
                                       [bodies[conversation_id].data EXCEPT
                                          !.title = new_title])
              /\ indexFile' = IndexWritten(wi, [conversations[m] EXCEPT
                                                  ![conversation_id].title = new_title])
              /\ lastC' = [lastC EXCEPT ![m] =
                             [Returned EXCEPT
                                !.saved = (wi = "ok" /\ wb = "ok")]]
    /\ UNCHANGED <<vsVars, pipe, config, cpc, cop, now, created>>

\* ConversationManager.get_conversation_messages: the messages of the loaded
\* body, and the empty list when load_conversation returns None
get_conversation_messages(conversation_id) ==
    IF Loadable(conversation_id) THEN bodies[conversation_id].data.messages ELSE <<>>

\* ConversationManager.get_conversation_history: the (role, content) pairs
get_conversation_history(conversation_id) ==
    [j \in 1 .. Len(get_conversation_messages(conversation_id)) |->
        <<get_conversation_messages(conversation_id)[j].role,
          get_conversation_messages(conversation_id)[j].content>>]


\* the orders in which self.conversations can hold its keys: a dictionary keeps
\* insertion order, which is the order of creation; created_at is the time in
\* the id, and two sessions created at the same instant may be in either order
InsertionOrders(m) ==
    {o \in [1 .. Cardinality(DOMAIN conversations[m]) -> DOMAIN conversations[m]] :
        /\ \A a, b \in DOMAIN o : a # b => o[a] # o[b]
        /\ \A a, b \in DOMAIN o : a < b => o[a][2] <= o[b][2]}

\* lines 195-202: the summary of a session
Summary(m, id) ==
    [id |-> id, title |-> conversations[m][id].title, created_at |-> id[2],
     updated_at |-> conversations[m][id].updated_at,
     query_count |-> conversations[m][id].query_count]

\* variant: the sort puts the earliest updated_at first
SortedAscending(l) ==
    CHOOSE r \in [DOMAIN l -> DOMAIN l] :
        /\ \A a, b \in DOMAIN l : a # b => r[a] # r[b]
        /\ \A a, b \in DOMAIN l :
             a < b => \/ l[r[a]].updated_at < l[r[b]].updated_at
                      \/ l[r[a]].updated_at = l[r[b]].updated_at /\ r[a] < r[b]

\* list.sort(key=updated_at, reverse=True), line 205: a stable sort, equal keys
\* keep the order they had
SortedByUpdated(l) ==
    CHOOSE r \in [DOMAIN l -> DOMAIN l] :
        /\ \A a, b \in DOMAIN l : a # b => r[a] # r[b]
        /\ \A a, b \in DOMAIN l :
             a < b => \/ l[r[a]].updated_at > l[r[b]].updated_at
                      \/ l[r[a]].updated_at = l[r[b]].updated_at /\ r[a] < r[b]

\* l[:limit] of Python: the first limit items, and all but the last -limit
\* items for a negative limit
UpTo(l, limit) ==
    IF limit >= 0 THEN SubSeq(l, 1, Min(limit, Len(l)))
    ELSE SubSeq(l, 1, Len(l) + limit)

\* ConversationManager.list_conversations
list_conversations(m, limit) ==
    /\ cpc[m] = "idle"
    /\ \E o \in InsertionOrders(m) :
         LET conversations_list == [j \in DOMAIN o |-> Summary(m, o[j])]
             r == SortedByUpdated(conversations_list)
             sorted == [j \in DOMAIN o |-> conversations_list[r[j]]]
         IN lastC' = [lastC EXCEPT ![m] =
                        [Returned EXCEPT !.ret = "list", !.listed = UpTo(sorted, limit)]]
    /\ UNCHANGED <<vsVars, pipe, config, bodies, indexFile, conversations, cpc, cop, now,
                   created, session>>

\* ------------------------------------------------------------------------
\* The browser session (streamlit_app.py): the Search handler and the buttons
\* ------------------------------------------------------------------------
\* GraphBuilder.run_with_memory, lines 132-136: a copy of the history with the
\* question and the answer appended; the answer "A" is one character long, the
\* fallback answer 94
updated_history(chat_history, question, result) ==
    LET answer == result.answer.v
        chars == IF answer = <<ErrorAnswer>> THEN 94 ELSE Len(answer)
    IN chat_history \o <<<<"user", Msg(<<question>>, 1)>>,
                         <<"assistant", Msg(answer, chars)>>>>

\* the Search button with a question, lines 678-685: a conversation titled by
\* the question (of at most 50 characters here) is created when there is no
\* current one
Search(question) ==
    /\ session.at = "idle"
    /\ cpc[1] = "idle"
    /\ indexed_files[1] # {}
    /\ IF session.current_conversation_id = {}
       THEN /\ create_conversation(1, question)
            /\ session' = [session EXCEPT
                             !.current_conversation_id =
                                 {_generate_conversation_id(Named(question))},
                             !.at = "asked", !.question = question]
       ELSE /\ session' = [session EXCEPT !.at = "asked", !.question = question]
            /\ UNCHANGED <<vsVars, pipe, config, storeVars>>

\* lines 691-694: graph_builder.run_with_memory(question, chat_history) is called
run_with_memory ==
    /\ session.at = "asked"
    /\ run(1, session.question, session.chat_history)
    /\ session' = [session EXCEPT !.at = "running"]

\* lines 694-698: run_with_memory has returned, the session keeps the updated
\* history
SearchReturned ==
    /\ session.at = "running"
    /\ pipe.st = "returned"
    /\ session' = [session EXCEPT
                     !.chat_history = updated_history(session.chat_history,
                                                      session.question, pipe.result),
                     !.at = "append_user"]
    /\ UNCHANGED <<vsVars, pipe, config, storeVars>>

\* what the run raised leaves the handler: nothing is assigned or appended
SearchRaised ==
    /\ session.at = "running"
    /\ pipe.st = "raised"
    /\ session' = [session EXCEPT !.at = "idle"]
    /\ UNCHANGED <<vsVars, pipe, config, storeVars>>

\* lines 701-717: add_message for the user turn, then for the assistant turn
\* with the metadata of the response; a KeyError leaves the handler
SearchAppend(role) ==
    /\ session.at = IF role = "user" THEN "append_user" ELSE "append_assistant"
    /\ \E id \in session.current_conversation_id :
         IF role = "user"
         THEN add_message(1, id, "user", Msg(<<session.question>>, 1), <<>>)
         ELSE add_message(1, id, "assistant",
                          updated_history(<<>>, session.question, pipe.result)[2][2],
                          [reasoning |-> pipe.result.reasoning,
                           hypothesis |-> pipe.result.hypothesis,
                           suggestions |-> pipe.result.suggestions,
                           sources |-> pipe.result.sources,
                           confidence_score |-> pipe.result.confidence_score])
    /\ session' = [session EXCEPT
                     !.at = IF lastC'[1].outcome = "KeyError" THEN "idle"
                            ELSE IF cpc'[1] = "saving"
                            THEN (IF role = "user" THEN "save_user" ELSE "save_assistant")
                            ELSE (IF role = "user" THEN "append_assistant" ELSE "idle")]

\* the two writes of the add_message in flight
SearchSave(role) ==
    /\ session.at = IF role = "user" THEN "save_user" ELSE "save_assistant"
    /\ add_message_save(1)
    /\ session' = [session EXCEPT
                     !.at = IF role = "user" THEN "append_assistant" ELSE "idle"]

\* the New Conversation button, lines 316-323
NewConversation ==
    /\ session.at = "idle"
    /\ create_conversation(1, "")
    /\ session' = [session EXCEPT
                     !.current_conversation_id = {_generate_conversation_id(Named(""))},
                     !.chat_history = <<>>]

\* the button of a listed conversation, lines 351-360
OpenConversation(id) ==
    /\ session.at = "idle"
    /\ cpc[1] = "idle"
    /\ id \in DOMAIN conversations[1]
    /\ session' = [session EXCEPT !.current_conversation_id = {id},
                                  !.chat_history = get_conversation_history(id)]
    /\ UNCHANGED <<vsVars, pipe, config, storeVars>>

\* the delete button of a listed conversation, lines 364-370, and of the
\* current one, lines 767-773
DeleteConversation(id) ==
    /\ session.at = "idle"
    /\ id \in DOMAIN conversations[1]
    /\ delete_conversation(1, id)
    /\ session' = IF id \in session.current_conversation_id
                  THEN [session EXCEPT !.current_conversation_id = {},
                                       !.chat_history = <<>>]
                  ELSE session

\* the Clear Current Chat button, lines 617-621
ClearChat ==
    /\ session.at = "idle"
    /\ cpc[1] = "idle"
    /\ session' = [session EXCEPT !.chat_history = <<>>]
    /\ UNCHANGED <<vsVars, pipe, config, storeVars>>

\* the storage directory and the index of manager m hold fewer than n sessions
\* besides the one create_conversation(title) would write
Room(m, title, n) ==
    Cardinality(DOMAIN bodies \cup DOMAIN conversations[m]
                \cup {_generate_conversation_id(Named(title))}) <= n

\* the session add_message would append to holds fewer than n messages
Short(m, id, n) ==
    (Loadable(id) /\ id \in DOMAIN conversations[m])
        => Len(bodies[id].data.messages) < n

\* ------------------------------------------------------------------------
\* Specifications
\* ------------------------------------------------------------------------
\* the ingest, reset and restart operations of instance i, ingesting from D
StoreNext(i, D) ==
    \/ VectorStoreInit(i)
    \/ load_vectorstore(i)
    \/ \E documents \in D : create_vectorstore(i, documents)
    \/ \E documents \in D : add_documents(i, documents)
    \/ EmbedOk(i)
    \/ EmbedEmpty(i)
    \/ EmbedRaise(i)
    \/ SaveStep(i)
    \/ PersistStep(i)
    \/ delete_collection(i)
    \/ Crash(i)

\* one VectorStore (one process) over its persist directory: ingest, reset,
\* crash and restart
Next == StoreNext(1, DocSeqs)

Spec == Init /\ [][Next]_vars

\* A persist directory in which the files of P were ingested earlier, one chunk
\* each, by a process that has ended
Ingested(P) ==
    /\ idxFile = IF P = {} THEN [st |-> "absent", files |-> {}]
                 ELSE [st |-> "valid", files |-> P]
    /\ store = [n \in Names |-> IF n \in P THEN 1 ELSE 0]
    /\ pend = [i \in Inst |-> ZeroBag]
    /\ pc = [i \in Inst |-> "unborn"]
    /\ vectorstore = [i \in Inst |-> "none"]
    /\ retriever = [i \in Inst |-> "none"]
    /\ indexed_files = [i \in Inst |-> {}]
    /\ op = [i \in Inst |-> NoOp]
    /\ lastOp = [i \in Inst |-> NoRes]
    /\ failed = NoFail
    /\ gb = [i \in Inst |-> "none"]
    /\ lastQ = NoQuery
    /\ pipe = NoRun
    /\ config = DefaultConfig
    /\ NoConversations

\* A caller that ingests one chunk sequence, arg, again and again: after a
\* return, after a failure, after a crash and restart
InitRepeat ==
    /\ autoPersist \in BOOLEAN
    /\ arg \in DocSeqs
    /\ \E P \in SUBSET Files : Ingested(P)

NextRepeat ==
    \/ VectorStoreInit(1)
    \/ load_vectorstore(1)
    \/ add_documents(1, arg)
    \/ EmbedOk(1)
    \/ EmbedRaise(1)
    \/ SaveStep(1)
    \/ PersistStep(1)
    \/ Crash(1)

SpecRepeat == InitRepeat /\ [][NextRepeat]_vars

\* Two sessions, each with its own VectorStore on the shared persist directory
\* (initialize_system, streamlit_app.py 204-241), each ingesting its own file
ConcDocs(i) == {<<[pdf_name |-> IF i = 1 THEN "a.pdf" ELSE "b.pdf", len |-> MinLen + 1]>>}

NextConc ==
    \E i \in Inst :
        \/ VectorStoreInit(i)
        \/ load_vectorstore(i)
        \/ \E documents \in ConcDocs(i) : add_documents(i, documents)
        \/ EmbedOk(i)
        \/ EmbedRaise(i)
        \/ SaveStep(i)
        \/ PersistStep(i)

SpecConc == Init /\ [][NextConc]_vars

\* One VectorStore over a collection of N chunks of a.pdf: queries through
\* retrieve_with_metadata, reset and ingest
QueryDocs == {<<[pdf_name |-> "b.pdf", len |-> MinLen + 1]>>}

InitQuery ==
    /\ autoPersist \in BOOLEAN
    /\ arg = <<>>
    /\ \E N \in 0 .. MaxChunks :
         /\ idxFile = IF N = 0 THEN [st |-> "absent", files |-> {}]
                      ELSE [st |-> "valid", files |-> {"a.pdf"}]
         /\ store = [n \in Names |-> IF n = "a.pdf" THEN N ELSE 0]
    /\ pend = [i \in Inst |-> ZeroBag]
    /\ pc = [i \in Inst |-> "unborn"]
    /\ vectorstore = [i \in Inst |-> "none"]
    /\ retriever = [i \in Inst |-> "none"]
    /\ indexed_files = [i \in Inst |-> {}]
    /\ op = [i \in Inst |-> NoOp]
    /\ lastOp = [i \in Inst |-> NoRes]
    /\ failed = NoFail
    /\ gb = [i \in Inst |-> "none"]
    /\ lastQ = NoQuery
    /\ pipe = NoRun
    /\ config = DefaultConfig
    /\ NoConversations

NextQuery ==
    \/ VectorStoreInit(1)
    \/ load_vectorstore(1)
    \/ create_vectorstore(1, <<>>)
    \/ \E documents \in QueryDocs : add_documents(1, documents)
    \/ EmbedOk(1)
    \/ EmbedRaise(1)
    \/ SaveStep(1)
    \/ PersistStep(1)
    \/ delete_collection(1)
    \/ \E k \in 0 .. MaxK : retrieve_with_metadata(1, k)

SpecQuery == InitQuery /\ [][NextQuery]_vars

\* One session of the application over a collection of N chunks of a.pdf:
\* start-up, questions through the pipeline and through
\* retrieve_with_metadata, and the Reset button
InitPipe ==
    /\ autoPersist \in BOOLEAN
    /\ arg = <<>>
    /\ \E N \in 0 .. MaxStored :
         /\ idxFile = IF N = 0 THEN [st |-> "absent", files |-> {}]
                      ELSE [st |-> "valid", files |-> {"a.pdf"}]
         /\ store = [n \in Names |-> IF n = "a.pdf" THEN N ELSE 0]
    /\ pend = [i \in Inst |-> ZeroBag]
    /\ pc = [i \in Inst |-> "unborn"]
    /\ vectorstore = [i \in Inst |-> "none"]
    /\ retriever = [i \in Inst |-> "none"]
    /\ indexed_files = [i \in Inst |-> {}]
    /\ op = [i \in Inst |-> NoOp]
    /\ lastOp = [i \in Inst |-> NoRes]
    /\ failed = NoFail
    /\ gb = [i \in Inst |-> "none"]
    /\ lastQ = NoQuery
    /\ pipe = NoRun
    /\ config = DefaultConfig
    /\ NoConversations

NextPipe ==
    \/ VectorStoreInit(1)
    \/ load_vectorstore(1)
    \/ create_vectorstore(1, <<>>)
    \/ GraphBuilderInit(1)
    \/ delete_collection(1)
    \/ \E k \in {0, 1} : retrieve_with_metadata(1, k)
    \/ \E question \in Questions, chat_history \in HistSeqs :
          run(1, question, chat_history) /\ UNCHANGED session
    \/ retrieve_docs(1)
    \/ generate_answer(Completions)
    \/ run_return

SpecPipe == InitPipe /\ [][NextPipe]_vars

\* A started system with MAX_HISTORY_TURNS set in the environment, asked
\* questions with chat histories of long messages
InitHist ==
    /\ autoPersist \in BOOLEAN
    /\ arg = <<>>
    /\ idxFile = [st |-> "valid", files |-> {"a.pdf"}]
    /\ store = [n \in Names |-> IF n = "a.pdf" THEN 1 ELSE 0]
    /\ pend = [i \in Inst |-> ZeroBag]
    /\ pc = [i \in Inst |-> IF i = 1 THEN "idle" ELSE "unborn"]
    /\ vectorstore = [i \in Inst |-> IF i = 1 THEN "live" ELSE "none"]
    /\ retriever = [i \in Inst |-> IF i = 1 THEN "live" ELSE "none"]
    /\ indexed_files = [i \in Inst |-> IF i = 1 THEN {"a.pdf"} ELSE {}]
    /\ op = [i \in Inst |-> NoOp]
    /\ lastOp = [i \in Inst |-> NoRes]
    /\ failed = NoFail
    /\ gb = [i \in Inst |-> IF i = 1 THEN "live" ELSE "none"]
    /\ lastQ = NoQuery
    /\ pipe = NoRun
    /\ config \in [MAX_HISTORY_TURNS : 0 .. MaxTurns]
    /\ NoConversations

NextHist ==
    \/ \E question \in Questions, chat_history \in LongHistSeqs :
          run(1, question, chat_history) /\ UNCHANGED session
    \/ retrieve_docs(1)
    \/ generate_answer({c \in Completions : c.raised \/ c.text = <<"{full}">>})
    \/ run_return

SpecHist == InitHist /\ [][NextHist]_vars

\* One VectorStore on a directory that holds any set of ingested files: it
\* ingests the chunk sequence its caller holds, resets and answers k = 1 queries
NextIngest ==
    \/ VectorStoreInit(1)
    \/ load_vectorstore(1)
    \/ add_documents(1, arg)
    \/ EmbedOk(1)
    \/ EmbedRaise(1)
    \/ SaveStep(1)
    \/ PersistStep(1)
    \/ delete_collection(1)
    \/ retrieve_with_metadata(1, 1)

SpecIngest == InitRepeat /\ [][NextIngest]_vars

\* A started session (initialize_system has loaded the index of a.pdf and built
\* the graph) in which the user resets all data, uploads b.pdf and asks
InitReset ==
    /\ autoPersist \in BOOLEAN
    /\ arg = <<>>
    /\ idxFile = [st |-> "valid", files |-> {"a.pdf"}]
    /\ store = [n \in Names |-> IF n = "a.pdf" THEN 1 ELSE 0]
    /\ pend = [i \in Inst |-> ZeroBag]
    /\ pc = [i \in Inst |-> IF i = 1 THEN "idle" ELSE "unborn"]
    /\ vectorstore = [i \in Inst |-> IF i = 1 THEN "live" ELSE "none"]
    /\ retriever = [i \in Inst |-> IF i = 1 THEN "live" ELSE "none"]
    /\ indexed_files = [i \in Inst |-> IF i = 1 THEN {"a.pdf"} ELSE {}]
    /\ op = [i \in Inst |-> NoOp]
    /\ lastOp = [i \in Inst |-> NoRes]
    /\ failed = NoFail
    /\ gb = [i \in Inst |-> IF i = 1 THEN "live" ELSE "none"]
    /\ lastQ = NoQuery
    /\ pipe = NoRun
    /\ config = DefaultConfig
    /\ NoConversations

NextReset ==
    \/ delete_collection(1)
    \/ \E documents \in QueryDocs : add_documents(1, documents)
    \/ EmbedOk(1)
    \/ EmbedRaise(1)
    \/ SaveStep(1)
    \/ PersistStep(1)
    \/ \E question \in Questions : run(1, question, <<>>) /\ UNCHANGED session
    \/ retrieve_docs(1)
    \/ generate_answer({c \in Completions : c.raised \/ c.text = <<"{full}">>})
    \/ run_return

SpecReset == InitReset /\ [][NextReset]_vars

\* One browser session on a started system with an indexed file: questions are
\* asked and the conversation buttons pressed. An id is created once, a
\* question is asked while the current session and the chat history have room
\* for its two messages,
\* the completion call returns, and the writes of index.json succeed; the
\* writes of the session bodies may fail
NextUI ==
    LET IndexSaved == indexFile' = [st |-> "valid", entries |-> conversations'[1]]
    IN
    \/ ConversationManagerInit(1)
    \/ \E question \in Questions :
         /\ session.current_conversation_id = {}
               => _generate_conversation_id(Named(question)) \notin created
         /\ \A id \in session.current_conversation_id : Short(1, id, MaxLog - 1)
         /\ Len(session.chat_history) + 2 <= MaxLog
         /\ Search(question)
         /\ session.current_conversation_id = {} => IndexSaved
    \/ run_with_memory
    \/ retrieve_docs(1)
    \/ generate_answer({c \in Completions : c.text = <<"{full}">>})
    \/ run_return
    \/ SearchReturned
    \/ SearchRaised
    \/ \E role \in Roles : SearchAppend(role)
    \/ \E role \in Roles : SearchSave(role) /\ IndexSaved
    \/ _generate_conversation_id(Named("")) \notin created /\ NewConversation /\ IndexSaved
    \/ \E id \in DOMAIN conversations[1] : OpenConversation(id)
    \/ \E id \in DOMAIN conversations[1] : DeleteConversation(id) /\ IndexSaved
    \/ ClearChat

SpecUI == InitReset /\ [][NextUI]_vars

\* The browser session when every write and unlink of the conversation store
\* succeeds
NextUIOk == NextUI /\ lastC'[1].saved

SpecUIOk == InitReset /\ [][NextUIOk]_vars

\* One ConversationManager on its storage directory
ConvNext(m) ==
    \/ ConversationManagerInit(m)
    \/ \E title \in {"t"} :
         Room(m, title, MaxSessions) /\ create_conversation(m, title)
         /\ UNCHANGED session
    \/ \E id \in Ids, role \in Roles :
         Short(m, id, MaxMsgs) /\ add_message(m, id, role, Msg("m", 1), <<>>)
         /\ UNCHANGED session
    \/ add_message_save(m) /\ UNCHANGED session
    \/ \E id \in Ids : delete_conversation(m, id) /\ UNCHANGED session
    \/ \E id \in Ids, new_title \in NewTitles :
         update_conversation_title(m, id, new_title) /\ UNCHANGED session

NextConv ==
    \/ ConvNext(1)
    \/ Tick

SpecConv == Init /\ [][NextConv]_vars

\* One ConversationManager whose sessions are listed between the calls. The
\* listing reads self.conversations only, which every call updates whether or
\* not its writes succeed, so the writes of this specification succeed
NextList ==
    \/ ConversationManagerInit(1)
    \/ \E title \in {"t"} :
         Room(1, title, MaxListed) /\ create_conversation(1, title)
         /\ lastC'[1].saved /\ UNCHANGED session
    \/ \E id \in Ids :
         Short(1, id, MaxAppends) /\ add_message(1, id, "user", Msg("m", 1), <<>>)
         /\ UNCHANGED session
    \/ add_message_save(1) /\ lastC'[1].saved /\ UNCHANGED session
    \/ \E id \in Ids : delete_conversation(1, id) /\ lastC'[1].saved /\ UNCHANGED session
    \/ \E limit \in 0 .. MaxLimit : list_conversations(1, limit)
    \/ Tick

SpecList == Init /\ [][NextList]_vars

\* Two browser sessions, each with its own ConversationManager and its own
\* current conversation, on one storage directory
SessionOf(m) == IF m = 1 THEN <<"t", 0>> ELSE <<"Conversation <minute>", 0>>

TwoSessions ==
    LET ids == {SessionOf(m) : m \in Mgr}
        entries == [id \in ids |-> [title |-> id[1], updated_at |-> 0, query_count |-> 0]]
    IN /\ bodies = [id \in ids |->
                      [st |-> "valid",
                       data |-> [title |-> id[1], updated_at |-> 0, messages |-> <<>>,
                                 query_count |-> 0]]]
       /\ indexFile = [st |-> "valid", entries |-> entries]
       /\ conversations = [m \in Mgr |-> entries]
       /\ cpc = [m \in Mgr |-> "idle"]
       /\ cop = [m \in Mgr |-> NoCall]
       /\ now = 0
       /\ lastC = [m \in Mgr |-> NoOutcome]
       /\ created = ids
       /\ session = NoSession

InitConvConc ==
    /\ autoPersist \in BOOLEAN
    /\ arg = <<>>
    /\ idxFile = [st |-> "absent", files |-> {}]
    /\ store = ZeroBag
    /\ pend = [i \in Inst |-> ZeroBag]
    /\ pc = [i \in Inst |-> "unborn"]
    /\ vectorstore = [i \in Inst |-> "none"]
    /\ retriever = [i \in Inst |-> "none"]
    /\ indexed_files = [i \in Inst |-> {}]
    /\ op = [i \in Inst |-> NoOp]
    /\ lastOp = [i \in Inst |-> NoRes]
    /\ failed = NoFail
    /\ gb = [i \in Inst |-> "none"]
    /\ lastQ = NoQuery
    /\ pipe = NoRun
    /\ config = DefaultConfig
    /\ TwoSessions

NextConvConc ==
    \/ \E m \in Mgr, role \in Roles :
         Short(m, SessionOf(m), MaxMsgs)
         /\ add_message(m, SessionOf(m), role, Msg("m", 1), <<>>)
         /\ UNCHANGED session
    \/ \E m \in Mgr : add_message_save(m) /\ UNCHANGED session
    \/ Tick

SpecConvConc == InitConvConc /\ [][NextConvConc]_vars

\* ------------------------------------------------------------------------
\* Ingest: properties
\* ------------------------------------------------------------------------
AddKinds == {"add", "add_create"}

\* C1: every file id in the persisted indexed-file set has its vectors durably
\* stored in the collection, at every point of every run, a crash at any step
\* of an ingest included
C1_PersistedOnlyAfterDurable ==
    \A f \in PersistedSet : store[f] > 0

\* the chunk sequence S has no chunk that passes the length filter without a
\* pdf_name of its own
AllKnown(S) == \A j \in DOMAIN S : S[j].len > MinLen => S[j].pdf_name # "unknown"

\* instance i calls add_documents(arg) right after its add_documents(arg) returned
SecondCall(i) ==
    /\ pc[i] = "idle"
    /\ lastOp[i].kind \in AddKinds
    /\ lastOp[i].outcome = "returned"
    /\ lastOp[i].ofArg
    /\ add_documents(i, arg)

\* the call returns 0 at once and leaves the vector count and the stats alone
ReturnsZeroUnchanged(i) ==
    /\ pc'[i] = "idle"
    /\ lastOp'[i].outcome = "returned"
    /\ lastOp'[i].ret = 0
    /\ store' = store
    /\ pend' = pend
    /\ CollCount(i)' = CollCount(i)
    /\ get_collection_stats(i)' = get_collection_stats(i)

\* C2 as stated: for every chunk sequence S, the second of two add_documents(S)
\* calls in a row returns 0 and leaves the vector count and
\* stats().indexed_files_count unchanged
C2_SecondCallIdempotent ==
    [][SecondCall(1) => ReturnsZeroUnchanged(1)]_vars

\* C2 amended: for every chunk sequence S whose chunks longer than 20
\* characters all carry a pdf_name other than "unknown", the second of two
\* add_documents(S) calls in a row returns 0 and leaves the vector count and
\* stats().indexed_files_count unchanged
C2_SecondCallIdempotentKnown ==
    [][(SecondCall(1) /\ AllKnown(arg)) => ReturnsZeroUnchanged(1)]_vars

C2_Witness ==
    /\ lastOp[1].kind = "add"
    /\ lastOp[1].repeat
    /\ lastOp[1].outcome = "returned"
    /\ lastOp[1].ret = 0
    /\ lastOp[1].prevRet > 0
    /\ AllKnown(arg)

\* C3: a chunk whose origin file is in the indexed-file set when an ingest
\* starts is never handed to the embedder, by add_documents or by
\* create_vectorstore
C3_IndexedNeverReembedded ==
    \A i \in Inst :
        pc[i] = "embed" =>
            \A j \in DOMAIN op[i].docs : ~is_file_indexed(i, op[i].docs[j].pdf_name)

\* C4: an ingest during which the write of indexed_files.json or the persist of
\* the collection failed does not return normally: the failure reaches the
\* caller
C4_StorageFailureSurfaced ==
    \A i \in Inst :
        (lastOp[i].kind \in AddKinds \cup {"create"}
            /\ (lastOp[i].saveFailed \/ lastOp[i].persistFailed))
        => lastOp[i].outcome # "returned"

\* the files of the ingest that failed or crashed before indexed_files.json was
\* written are marked neither on disk nor in a running instance
C5_Unmarked ==
    failed.set =>
        \A f \in failed.files :
            /\ f \notin PersistedSet
            /\ pc[1] = "idle" => ~is_file_indexed(1, f)

\* add_documents(arg) is called again after such a failure: the chunks go to
\* the embedder again, the failed files among them
C5_RetryEmbeds ==
    (failed.set /\ failed.ofArg /\ add_documents(1, arg))
        => /\ pc'[1] = "embed"
           /\ failed.files \subseteq op'[1].files
           /\ \A f \in failed.files :
                \E j \in DOMAIN op'[1].docs : op'[1].docs[j].pdf_name = f

\* C5: when an ingest fails or crashes after vectors were appended and before
\* the indexed-file set is persisted, its files stay unmarked (also after a
\* restart), and a retry of the same ingest embeds and adds them again
C5_FailedIngestRetried ==
    []C5_Unmarked /\ [][C5_RetryEmbeds]_vars

C5_Witness ==
    /\ lastOp[1].retry
    /\ lastOp[1].outcome = "returned"
    /\ lastOp[1].ret > 0
    /\ lastOp[1].files # {}
    /\ lastOp[1].files \subseteq PersistedSet
    /\ \A f \in lastOp[1].files : store[f] > 1

\* C6: after two ingests of different files that overlapped in time, each by
\* its own VectorStore on the shared persist directory, have both returned with
\* their write of indexed_files.json done, the persisted set holds both files
C6_NoLostUpdate ==
    (/\ \A i \in Inst :
          /\ pc[i] = "idle"
          /\ lastOp[i].kind \in AddKinds
          /\ lastOp[i].outcome = "returned"
          /\ lastOp[i].ret > 0
          /\ ~lastOp[i].saveFailed
     /\ \E i \in Inst : lastOp[i].overlap)
    => \A i \in Inst : lastOp[i].files \subseteq PersistedSet

\* C7: on every query path, retrieve_with_metadata and the pipeline's
\* retriever, the query fails with NotInitialized exactly when the VectorStore
\* holds no collection
C7_NotInitializedIffNoCollection ==
    lastQ.path \in {"retrieve_with_metadata", "pipeline"}
        => ((lastQ.out = "NotInitialized") <=> lastQ.vsNone)

\* C8: retrieve_with_metadata(q, k) that succeeds returns the first
\* min(k, stored) chunks of the similarity ranking, with k omitted read as
\* RETRIEVAL_K
C8_ExactlyMinKStored ==
    (lastQ.path = "retrieve_with_metadata" /\ lastQ.out = "ok")
        => lastQ.res = SubSeq(Ranking(lastQ.count), 1,
                              Min(EffectiveK(lastQ.k), lastQ.count))

\* ------------------------------------------------------------------------
\* Answer pipeline: properties
\* ------------------------------------------------------------------------
\* C9: a run whose retrieval fails with a transient gateway error on an
\* initialized index raises nothing to its caller: it ends with an answer
C9_RetrievalFaultNotPropagated ==
    pipe.retrieval = "GatewayError" => pipe.error = "none"

\* after the completion call raised, the node has returned the fixed error
\* answer with confidence 0.0 and some suggestions, and the run raised nothing
C10_ErrorAnswer ==
    pipe.completion = "raised" =>
        /\ pipe.st \in {"answered", "returned"}
        /\ pipe.error = "none"
        /\ pipe.state.answer = Txt(<<ErrorAnswer>>)
        /\ pipe.state.confidence_score = Num(0)
        /\ pipe.state.suggestions.v # <<>>
        /\ pipe.state.question = pipe.question
        /\ pipe.state.chat_history = pipe.chat_history

\* the step of generate_answer in which the completion call raises carries
\* question, retrieved_docs and chat_history over
C10_CarriedOver ==
    (pipe.st = "retrieved" /\ pipe'.completion = "raised")
        => /\ pipe'.state.question = pipe.state.question
           /\ pipe'.state.retrieved_docs = pipe.state.retrieved_docs
           /\ pipe'.state.chat_history = pipe.state.chat_history

\* C10: when the completion call raises, generate_answer raises nothing and
\* returns the fixed error answer with confidence 0.0 and non-empty
\* suggestions, carrying question, retrieved_docs and chat_history over
C10_CompletionFailureFallback ==
    []C10_ErrorAnswer /\ [][C10_CarriedOver]_vars

C10_Witness ==
    /\ pipe.st = "returned"
    /\ pipe.completion = "raised"
    /\ pipe.state.retrieved_docs # <<>>
    /\ pipe.state.chat_history # <<>>
    /\ pipe.result.answer = Txt(<<ErrorAnswer>>)

\* the completion text, with one fence layer removed, is a JSON object whose
\* fields have the types RAGState expects
ExpectedObject(text) ==
    /\ Loads(JsonText(text))
    /\ JsonValue(JsonText(text)).t = "dict"
    /\ ValidState(Answered(RAGState("", <<>>, <<>>), JsonValue(JsonText(text)), <<>>))

\* C11: when the completion call succeeds with a text that is no JSON object
\* of the expected shape (invalid JSON, JSON that is no object, fields of the
\* wrong type), generate_answer returns the raw text as answer, reasoning,
\* hypothesis, suggestions and sources empty, and confidence 0.5
C11_ParseFailureFallback ==
    (pipe.completion = "returned" /\ ~ExpectedObject(pipe.response_text))
        => /\ pipe.state.answer = Txt(pipe.response_text)
           /\ pipe.state.reasoning = Txt(<<>>)
           /\ pipe.state.hypothesis = Txt(<<>>)
           /\ pipe.state.suggestions = Lst(<<>>)
           /\ pipe.state.sources = Lst(<<>>)
           /\ pipe.state.confidence_score = Num(50)

\* C12: for the JSON object text j a completion carried, _parse_llm_response
\* gives the object j denotes for j unfenced, for j in a json fence and for j
\* in a plain fence
C12_FencedEqualsUnfenced ==
    (pipe.completion = "returned" /\ pipe.response_text \in ObjectTexts)
        => /\ _parse_llm_response(pipe.response_text) = JsonValue(pipe.response_text)
           /\ _parse_llm_response(FencedJson(pipe.response_text))
                = _parse_llm_response(pipe.response_text)
           /\ _parse_llm_response(FencedPlain(pipe.response_text))
                = _parse_llm_response(pipe.response_text)

\* C13: an answer produced from a non-empty retrieval has sources: when the
\* parsed completion has no sources, or an empty list of them, they are the
\* citations of the retrieved chunks in retrieval order
C13_SourcesNeverDropped ==
    (pipe.st \in {"answered", "returned"} /\ pipe.state.retrieved_docs # <<>>)
        => /\ pipe.state.sources.v # <<>>
           /\ (pipe.completion = "returned"
                 /\ Get(_parse_llm_response(pipe.response_text), "sources", Lst(<<>>))
                      = Lst(<<>>))
              => pipe.state.sources = Lst(SourcesList(pipe.state.retrieved_docs))

\* C15: the confidence of every answer state and of every answer object the
\* pipeline returns lies in [0, 1]
C15_ConfidenceInUnitRange ==
    /\ pipe.st \in {"answered", "returned"}
         => (pipe.state.confidence_score.v >= 0 /\ pipe.state.confidence_score.v <= 100)
    /\ pipe.st = "returned"
         => (pipe.result.confidence_score.v >= 0 /\ pipe.result.confidence_score.v <= 100)

AnswerKeys == {"answer", "reasoning", "hypothesis", "suggestions", "sources",
               "confidence", "question", "retrieved_docs"}

\* C16: whatever the completion call does, the run that got past retrieval
\* returns an answer object with all the keys of the answer object and a
\* non-empty answer text
C16_WellFormedAnswerObject ==
    pipe.completion # "none" =>
        /\ pipe.error = "none"
        /\ pipe.st = "returned"
             => /\ AnswerKeys \subseteq DOMAIN pipe.result
                /\ pipe.result.answer.v # <<>>

\* the turns among the lines of a formatted history
TurnLines(text) == SelectSeq(text, LAMBDA l : l.line = "turn")

\* C14: the history text handed to synthesis holds at most MAX_HISTORY_TURNS
\* turns, they are the last ones of the history in their order, and each
\* message is cut to at most 200 characters
C14_HistoryBounded ==
    pipe.st \in {"answered", "returned"} =>
        LET lines == TurnLines(pipe.history_text)
            history == pipe.chat_history
            n == Min(config.MAX_HISTORY_TURNS, Len(history))
        IN /\ Len(lines) = n
           /\ \A j \in 1 .. Len(lines) :
                /\ Len(history) - n + j \in DOMAIN history
                /\ lines[j].role = Upper(history[Len(history) - n + j][1])
                /\ lines[j].message.text = history[Len(history) - n + j][2].text
                /\ lines[j].message.len = Min(history[Len(history) - n + j][2].len,
                                              TruncLen)

\* C17: every create returns an id that no earlier create returned, so it
\* never overwrites the body or the index entry of an existing session.
C17_CreateReturnsFreshId ==
    [][\A id \in Ids :
         (\E title \in Titles :
             /\ id = _generate_conversation_id(title)
             /\ create_conversation(1, title))
         => id \notin created]_vars

\* C18: add_message with a session id that the summary index does not hold,
\* neither in memory nor on disk, returns without raising and leaves the
\* index and every body file as they were.
C18_UnknownAppendIsNoOp ==
    [][\A id \in Ids, role \in Roles :
         (/\ id \notin DOMAIN conversations[1]
          /\ id \notin DOMAIN _load_index
          /\ add_message(1, id, role, Msg("m", 1), <<>>))
         => /\ lastC'[1].outcome = "returned"
            /\ UNCHANGED <<bodies, indexFile, conversations>>]_vars

\* C19: once a call of the manager has returned, the ids in the summary index
\* are exactly the ids that have a body file.
C19_IndexMatchesBodies ==
    (cpc[1] = "idle" /\ lastC[1].outcome = "returned")
        => DOMAIN conversations[1] = DOMAIN bodies

\* C20: when the appends of the two managers to their two sessions overlapped
\* and both completed with every write succeeding, the persisted index holds
\* both sessions with the query_count and updated_at of their bodies.
C20_OverlappingAppendsBothKept ==
    (/\ \A m \in Mgr : /\ cpc[m] = "idle"
                       /\ lastC[m].outcome = "returned"
                       /\ lastC[m].saved
                       /\ Loadable(SessionOf(m))
                       /\ bodies[SessionOf(m)].data.messages # <<>>
     /\ \E m \in Mgr : lastC[m].overlap)
        => \A m \in Mgr :
             LET id == SessionOf(m)
             IN /\ id \in DOMAIN _load_index
                /\ _load_index[id].query_count = bodies[id].data.query_count
                /\ _load_index[id].updated_at = bodies[id].data.updated_at

\* the stage changes of one pass: Start -> Retrieved -> Answered, the return
\* of the result, and the start of the next run once the last one has ended
PassSteps ==
    {<<"start", "retrieved">>, <<"retrieved", "answered">>, <<"answered", "returned">>,
     <<"start", "raised">>, <<"idle", "start">>, <<"returned", "start">>,
     <<"raised", "start">>}

\* C25: every run is one pass Start -> Retrieved -> Answered: the stage only
\* moves forward, the completion is asked for only after retrieval gave its
\* result, and a run that has ended has executed the retrieve stage and then
\* the synthesize stage.
C25_SinglePass ==
    [][/\ pipe'.st # pipe.st => <<pipe.st, pipe'.st>> \in PassSteps
       /\ pipe'.completion # "none" => pipe'.retrieval = "ok"
       /\ pipe'.st \in {"returned", "raised"} =>
             (pipe'.retrieval = "ok" /\ pipe'.completion # "none")]_vars

\* the chunks of an input that the claim counts: origin file not in the
\* indexed-file set, trimmed content of at least MinLen + 1 characters
Qualifying(i, documents) ==
    SelectSeq(documents,
              LAMBDA d : d.pdf_name \notin indexed_files[i] /\ d.len >= MinLen + 1)

\* instance i has just ingested one chunk into an empty index
IngestedOne(i) ==
    /\ lastOp[i].kind \in AddKinds
    /\ lastOp[i].outcome = "returned"
    /\ lastOp[i].ret = 1
    /\ CollCount(i) = 1

\* C24: add_documents returns the number of chunks it appended, which is the
\* number of qualifying chunks of its input; only the files of qualifying
\* chunks are marked; an input without qualifying chunks (the empty one
\* included) returns 0 and changes neither the collection nor the
\* indexed-file set; and a k = 1 query after one chunk was ingested into an
\* empty index returns that chunk, unless the embedding of the query fails.
C24_IngestReturnsAppendedCount ==
    [][/\ add_documents(1, arg) =>
            /\ UNCHANGED <<store, pend, indexed_files, idxFile>>
            /\ IF Qualifying(1, arg) = <<>>
               THEN /\ pc'[1] = "idle"
                    /\ lastOp'[1].outcome = "returned"
                    /\ lastOp'[1].ret = 0
               ELSE /\ pc'[1] = "embed"
                    /\ op'[1].docs = Qualifying(1, arg)
                    /\ op'[1].files = Origins(Qualifying(1, arg)) \ {"unknown"}
       /\ (EmbedOk(1) /\ op[1].kind \in AddKinds) =>
             /\ CollCount(1)' = CollCount(1) + Len(op[1].docs)
             /\ UNCHANGED <<indexed_files, idxFile>>
       /\ (SaveStep(1) /\ op[1].kind \in AddKinds) =>
             /\ CollCount(1)' = CollCount(1)
             /\ indexed_files'[1] = indexed_files[1] \cup op[1].files
       /\ (PersistStep(1) /\ op[1].kind \in AddKinds) =>
             /\ CollCount(1)' = CollCount(1)
             /\ UNCHANGED <<indexed_files, idxFile>>
             /\ lastOp'[1].outcome = "returned"
             /\ lastOp'[1].ret = Len(op[1].docs)
       /\ (IngestedOne(1) /\ retrieve_with_metadata(1, 1)) =>
             /\ lastQ'.out \in {"ok", "GatewayError"}
             /\ lastQ'.out = "ok" => lastQ'.res = <<1>>]_vars

C24_Witness ==
    /\ IngestedOne(1)
    /\ lastOp[1].files = {"a.pdf"}
    /\ indexed_files[1] = {"a.pdf"}
    /\ lastQ.path = "retrieve_with_metadata"
    /\ lastQ.out = "ok"
    /\ lastQ.res = <<1>>

\* C29: whenever the retrieve stage runs while the VectorStore has a current
\* collection, the retriever it invokes is the retriever of that collection,
\* also after delete_collection followed by a new ingest.
C29_PipelineUsesCurrentRetriever ==
    [][(retrieve_docs(1) /\ retriever[1] = "live") => gb[1] = retriever[1]]_vars

\* ------------------------------------------------------------------------
\* Conversation store: delete, counters, the message log
\* ------------------------------------------------------------------------
IsPrefix(s, t) == Len(s) <= Len(t) /\ SubSeq(t, 1, Len(s)) = s

UserMessages(messages) == Len(SelectSeq(messages, LAMBDA msg : msg.role = "user"))

\* C23: delete_conversation on a session the manager knows removes its body
\* file and its index entry and returns True, and from then on its history is
\* empty and a second delete would find it absent; on an id the manager does
\* not know it returns False and changes neither the files nor the index
C23_DeleteRemovesBodyAndEntry ==
    [][\A id \in Ids :
         delete_conversation(1, id) =>
            IF id \in DOMAIN conversations[1]
            THEN /\ lastC'[1].ret = "True"
                 /\ id \notin DOMAIN bodies'
                 /\ id \notin DOMAIN conversations'[1]
                 /\ get_conversation_history(id)' = <<>>
            ELSE /\ lastC'[1].ret = "False"
                 /\ UNCHANGED <<bodies, indexFile, conversations>>]_vars

\* C26: between calls, for every session of the index whose body loads, the
\* query_count of the index entry equals the query_count of the body and the
\* number of user messages of the body, and updated_at is the same in both
C26_CountersAgree ==
    cpc[1] = "idle" =>
        \A id \in DOMAIN conversations[1] :
            Loadable(id) =>
                /\ conversations[1][id].query_count = bodies[id].data.query_count
                /\ bodies[id].data.query_count = UserMessages(bodies[id].data.messages)
                /\ conversations[1][id].updated_at = bodies[id].data.updated_at

\* C27: an append that reaches its writes and a rename leave the messages the
\* session held before the call as a prefix of its messages, unchanged; the
\* append adds exactly one message and the rename adds none
C27_LogAppendOnly ==
    [][\A id \in Ids :
         /\ (add_message_save(1) /\ cop[1].id = id /\ id \in DOMAIN bodies')
               => /\ IsPrefix(get_conversation_messages(id),
                              get_conversation_messages(id)')
                  /\ Len(get_conversation_messages(id)') =
                        Len(get_conversation_messages(id)) + 1
         /\ (\E new_title \in NewTitles : update_conversation_title(1, id, new_title))
               => get_conversation_messages(id)' = get_conversation_messages(id)]_vars

\* ------------------------------------------------------------------------
\* Conversation store: listing
\* ------------------------------------------------------------------------
\* the time of the last message of a session, -1 for a session without one
LastAppend(id) ==
    IF get_conversation_messages(id) = <<>> THEN 0 - 1
    ELSE get_conversation_messages(id)[Len(get_conversation_messages(id))].timestamp

\* a call of list_conversations with a limit of the model
Listing(limit) == limit \in 0 .. MaxLimit /\ list_conversations(1, limit)

\* C28 as stated: when one session was appended to later than every other and
\* no two sessions share their updated_at, list_conversations(limit >= 1)
\* returns that session first
C28_LastAppendedListedFirst ==
    [][\A limit \in 1 .. MaxLimit, id \in DOMAIN conversations[1] :
         (/\ Listing(limit)
          /\ \A other \in DOMAIN conversations[1] \ {id} :
                /\ LastAppend(other) < LastAppend(id)
                /\ conversations[1][other].updated_at # conversations[1][id].updated_at)
            => lastC'[1].listed[1].id = id]_vars

\* C28: list_conversations(limit), limit >= 0, returns min(limit, number of
\* sessions of the index) summaries of distinct sessions of the index, in
\* descending order of updated_at, so that a session of greatest updated_at (the
\* one created or appended to last) comes first and every session left out was
\* updated no later than every session returned; the call changes neither the
\* index nor the files
C28_ListSortedByUpdatedAt ==
    [][\A limit \in 0 .. MaxLimit :
         Listing(limit) =>
            LET l == lastC'[1].listed
                index == conversations[1]
                ids == {l[j].id : j \in DOMAIN l}
            IN /\ Len(l) = Min(limit, Cardinality(DOMAIN index))
               /\ Cardinality(ids) = Len(l)
               /\ \A j \in DOMAIN l :
                    /\ l[j].id \in DOMAIN index
                    /\ l[j].title = index[l[j].id].title
                    /\ l[j].updated_at = index[l[j].id].updated_at
                    /\ l[j].query_count = index[l[j].id].query_count
               /\ \A a, b \in DOMAIN l : a < b => l[a].updated_at >= l[b].updated_at
               /\ \A out \in DOMAIN index \ ids, j \in DOMAIN l :
                    index[out].updated_at <= l[j].updated_at
               /\ UNCHANGED <<bodies, indexFile, conversations, cpc, cop, now, created>>]_vars

\* a listing of two sessions with a limit of one has returned the later
\* updated one and left the other out
C28_Witness ==
    /\ lastC[1].ret = "list"
    /\ Len(lastC[1].listed) = 1
    /\ Cardinality(DOMAIN conversations[1]) = 2
    /\ \E out \in DOMAIN conversations[1] :
         /\ out # lastC[1].listed[1].id
         /\ conversations[1][out].updated_at < lastC[1].listed[1].updated_at
         /\ LastAppend(out) >= 0

\* ------------------------------------------------------------------------
\* The browser session: properties
\* ------------------------------------------------------------------------
\* the message add_message is to append for a turn of the handled question
Expected(role) ==
    IF role = "user"
    THEN [role |-> "user", content |-> Msg(<<session.question>>, 1), metadata |-> <<>>]
    ELSE [role |-> "assistant",
          content |-> updated_history(<<>>, session.question, pipe.result)[2][2],
          metadata |-> [reasoning |-> pipe.result.reasoning,
                        hypothesis |-> pipe.result.hypothesis,
                        suggestions |-> pipe.result.suggestions,
                        sources |-> pipe.result.sources,
                        confidence_score |-> pipe.result.confidence_score]]

\* the log of session id is the log it was plus one message of the given
\* role, content and metadata
GrownBy(id, role) ==
    LET before == get_conversation_messages(id)
        after == get_conversation_messages(id)'
    IN /\ Len(after) = Len(before) + 1
       /\ IsPrefix(before, after)
       /\ after[Len(after)].role = Expected(role).role
       /\ after[Len(after)].content = Expected(role).content
       /\ after[Len(after)].metadata = Expected(role).metadata

\* C21: once the run of a question has returned, the history the session keeps
\* is the history passed plus the user turn and the assistant turn, and each of
\* the two add_message calls that follow appends its message to the log of the
\* current session: the question with role user, then the answer with role
\* assistant and the metadata of the response
C21_QuestionAppendsTwoMessages ==
    [][/\ SearchReturned =>
            /\ Len(session'.chat_history) = Len(session.chat_history) + 2
            /\ IsPrefix(session.chat_history, session'.chat_history)
            /\ session'.chat_history[Len(session.chat_history) + 1] =
                  <<"user", Msg(<<session.question>>, 1)>>
            /\ session'.chat_history[Len(session.chat_history) + 2] =
                  <<"assistant", Msg(pipe.result.answer.v, Len(pipe.result.answer.v))>>
       /\ \A role \in Roles, id \in session.current_conversation_id :
            /\ SearchAppend(role) => cpc'[1] = "saving"
            /\ SearchSave(role) => GrownBy(id, role)]_vars

\* C22: the chat_history handed to run_with_memory is
\* get_conversation_history of the current session
C22_PassedHistoryIsStoredHistory ==
    [][run_with_memory =>
         \A id \in session.current_conversation_id :
            session.chat_history = get_conversation_history(id)]_vars

\* the roles of a log alternate, user first, and the log ends with an answer
Alternating(messages) ==
    /\ Len(messages) % 2 = 0
    /\ \A j \in DOMAIN messages :
         messages[j].role = IF j % 2 = 1 THEN "user" ELSE "assistant"

\* C30: whenever the Search handler is not in flight the messages of every
\* session body alternate user, assistant, starting with user, in even number;
\* and a run that raised leaves the bodies and the chat history as they were
C30_TurnsAlternate ==
    [][/\ session'.at = "idle" =>
            \A id \in DOMAIN bodies' : Alternating(get_conversation_messages(id)')
       /\ SearchRaised => /\ bodies' = bodies
                          /\ session'.chat_history = session.chat_history]_vars
====
